---- MODULE Spec2Model ----
(***************************************************************************)
(* blast2graph.py: the pipeline that turns tabular BLAST hits into raw    *)
(* and organism-normalized metric graphs.                                  *)
(*                                                                         *)
(* Floats are modelled as exact rationals <<n, d>> (d > 0, lowest terms);  *)
(* the IEEE specials the program produces are <<1,0>> (inf), <<-1,0>>      *)
(* (-inf) and <<0,0>> (nan); Python's None is <<0,-1>>.                    *)
(***************************************************************************)
EXTENDS Integers, Sequences, FiniteSets, TLC

VARIABLES blast, pos, pc, err, node, edge, org_ids, org_avgs, glb,
          min_scl, max_evl, out

vars == <<blast, pos, pc, err, node, edge, org_ids, org_avgs, glb,
          min_scl, max_evl, out>>

(***************************************************************************)
(* Float arithmetic                                                        *)
(***************************************************************************)
Inf  == <<1, 0>>
NInf == <<-1, 0>>
NaN  == <<0, 0>>
None == <<0, -1>>

Abs(x) == IF x < 0 THEN -x ELSE x

RECURSIVE GCD(_, _)
GCD(a, b) == IF b = 0 THEN a ELSE GCD(b, a % b)

Sign(x) == IF x > 0 THEN 1 ELSE IF x < 0 THEN -1 ELSE 0

\* The rational n/d (d # 0) in lowest terms with a positive denominator.
Rat(n, d) ==
    LET g == GCD(Abs(n), Abs(d))
        s == IF d < 0 THEN -1 ELSE 1
    IN  <<(s * n) \div g, (s * d) \div g>>

Num(k) == <<k, 1>>

IsFinite(x) == x[2] > 0
IsNaN(x) == x = NaN

\* x + y
FAdd(x, y) ==
    IF IsNaN(x) \/ IsNaN(y) THEN NaN
    ELSE IF IsFinite(x) /\ IsFinite(y)
         THEN Rat(x[1] * y[2] + y[1] * x[2], x[2] * y[2])
    ELSE IF IsFinite(x) THEN y
    ELSE IF IsFinite(y) THEN x
    ELSE IF x = y THEN x ELSE NaN

\* x * y
FMul(x, y) ==
    IF IsNaN(x) \/ IsNaN(y) THEN NaN
    ELSE IF IsFinite(x) /\ IsFinite(y)
         THEN LET g1 == GCD(Abs(x[1]), y[2])
                  g2 == GCD(Abs(y[1]), x[2])
              IN  Rat((x[1] \div g1) * (y[1] \div g2),
                      (x[2] \div g2) * (y[2] \div g1))
    ELSE IF Sign(x[1]) * Sign(y[1]) = 0 THEN NaN
    ELSE IF Sign(x[1]) * Sign(y[1]) > 0 THEN Inf ELSE NInf

\* x / y for y # 0.0 (Python raises ZeroDivisionError on y = 0.0; the
\* callers test DivByZero first).
FDiv(x, y) ==
    IF IsNaN(x) \/ IsNaN(y) THEN NaN
    ELSE IF IsFinite(x) /\ IsFinite(y)
         THEN FMul(x, Rat(y[2], y[1]))
    ELSE IF IsFinite(x) THEN Num(0)
    ELSE IF IsFinite(y)
         THEN (IF Sign(x[1]) * Sign(y[1]) > 0 THEN Inf ELSE NInf)
    ELSE NaN

DivByZero(y) == y = Num(0)

\* x < y (False whenever a nan is involved)
FLt(x, y) ==
    IF IsNaN(x) \/ IsNaN(y) THEN FALSE
    ELSE IF IsFinite(x) /\ IsFinite(y) THEN x[1] * y[2] < y[1] * x[2]
    ELSE IF IsFinite(x) THEN y = Inf
    ELSE IF IsFinite(y) THEN x = NInf
    ELSE x = NInf /\ y = Inf

FGt(x, y) == FLt(y, x)

FMin(x, y) == IF FLt(y, x) THEN y ELSE x

\* Python truthiness of a metric value: None and 0.0 are falsy.
Truthy(x) == x # None /\ x # Num(0)

(***************************************************************************)
(* Input alphabet                                                          *)
(***************************************************************************)
\* Longest BLAST file explored, in records.
MaxRecs == 4

\* --idchar default
idchar == "|"

A1 == <<"A", "|", "1">>
A2 == <<"A", "|", "2">>
B1 == <<"B", "|", "1">>
Ids == {A1, A2, B1}

\* Sequence lengths as BLAST reports them in the qlen/slen columns.
SeqLen == [i \in Ids |-> IF i = A1 THEN 2 ELSE IF i = A2 THEN 3 ELSE 1]

\* E-values: <<0, 0>> is an E-value printed as zero, <<1, k>> is 1ek.
EZero == <<0, 0>>
Pow10(k) == <<1, k>>

Record(q, s, bit, ev) == [q |-> q, s |-> s, bit |-> bit, ev |-> ev,
                          qlen |-> SeqLen[q], slen |-> SeqLen[s]]

\* Files of at most MaxRecs records in any order: hits between and within
\* two sequences of different organisms, with or without their self-hits.
\* Self-hits carry an E-value of zero; the hits of A|1 against B|1 carry
\* either E-value, the reciprocal hits 1e-2.
Bits == {1, 2}
EValues == {EZero, Pow10(-2)}
SelfRecords == {Record(i, i, b, EZero) : i \in {A1, B1}, b \in Bits}
HitRecords ==
    {Record(A1, B1, b, e) : b \in Bits, e \in EValues}
    \cup {Record(B1, A1, b, Pow10(-2)) : b \in Bits}
Records == SelfRecords \cup HitRecords

Files == UNION {[1..n -> Records] : n \in 0..MaxRecs}

\* All-against-all files: the self-hit of each of three sequences of two
\* organisms, then at most MaxCross hits between different sequences, within
\* organism A and between the organisms; E-values of 1 and 10 included.
MaxCross == 2

SelfEValues == {EZero, Pow10(-3)}
CrossEValues == {EZero, Pow10(-2), Pow10(0), Pow10(1)}
CrossRecords ==
    {Record(k[1], k[2], b, e) : k \in {<<A1, A2>>, <<A1, B1>>},
                                b \in Bits, e \in CrossEValues}

SelfPart == {<<Record(A1, A1, 2, e[1]), Record(A2, A2, 2, Pow10(-3)),
               Record(B1, B1, 2, e[2])>> :
                e \in [1..2 -> SelfEValues]}

AllVsAllFiles ==
    {h \o t : h \in SelfPart,
              t \in UNION {[1..n -> CrossRecords] : n \in 0..MaxCross}}

\* One-record files over every E-value from 1e-MaxExp to 1e+MaxExp and zero.
MaxExp == 182

WideEValues == {EZero} \cup {Pow10(k) : k \in (-MaxExp)..MaxExp}
OneRecordFiles ==
    {<<Record(q, s, 1, e)>> : q \in {A1, B1}, s \in {A1, B1},
                               e \in WideEValues}

(***************************************************************************)
(* Helpers of the two passes over the file                                 *)
(***************************************************************************)
\* seq_id.split(idchar)[0]
OrgOf(id) ==
    LET cut == {k \in 1..Len(id) : id[k] = idchar}
        first == IF cut = {} THEN Len(id) + 1
                 ELSE CHOOSE k \in cut : \A j \in cut : k <= j
    IN  SubSeq(id, 1, first - 1)

EmptyDict == [k \in {} |-> None]

\* elif bit_scr > met_grf.node[seq_id]['sbs']
SelfBetter_Mut(bit_scr, sbs) == FLt(bit_scr, sbs)
SelfBetter(bit_scr, sbs) == FGt(bit_scr, sbs)

\* The body of the loop of get_self_bit_scores_and_org_ids for one line.
SelfNode(nd, rec) ==
    IF rec.q # rec.s THEN nd
    ELSE IF rec.q \notin DOMAIN nd
         THEN [i \in DOMAIN nd \cup {rec.q} |->
                  IF i = rec.q THEN [sbs |-> Num(rec.bit)] ELSE nd[i]]
    ELSE IF SelfBetter(Num(rec.bit), nd[rec.q].sbs)
         THEN [nd EXCEPT ![rec.q] = [sbs |-> Num(rec.bit)]]
    ELSE nd

\* float(-Decimal(temp[evcol]).log10())
NegLog10_Mut(ev) == IF ev = EZero THEN Inf ELSE Num(Abs(ev[2]))
NegLog10(ev) == IF ev = EZero THEN Inf ELSE Num(-ev[2])

\* BLAST 2.2.28+ rounds E-values smaller than 1e-180 to zero
Sentinel == 181

Evl(ev) == IF NegLog10(ev) = Inf THEN Num(Sentinel) ELSE NegLog10(ev)

IMin(a, b) == IF b < a THEN b ELSE a

Metrics == <<"evl", "bit", "bpr", "bsr">>
MetricSet == {"evl", "bit", "bpr", "bsr"}

HasBoth(nd, rec) == rec.q \in DOMAIN nd /\ rec.s \in DOMAIN nd

\* The exception the metric computation of get_metrics raises on a record,
\* "none" when it raises nothing.
MetricsErr(nd, rec) ==
    IF ~HasBoth(nd, rec) THEN "none"
    ELSE IF IMin(rec.qlen, rec.slen) = 0 THEN "ZeroDivisionError"
    ELSE IF "sbs" \notin DOMAIN nd[rec.q] \/ "sbs" \notin DOMAIN nd[rec.s]
         THEN "KeyError"
    ELSE IF DivByZero(FMin(nd[rec.q].sbs, nd[rec.s].sbs))
         THEN "ZeroDivisionError"
    ELSE "none"

\* The dict `metrics` get_metrics builds for a record (MetricsErr = "none").
MetricsOf(nd, rec) ==
    LET bit == Num(rec.bit)
        keys == IF HasBoth(nd, rec) THEN MetricSet ELSE {"bit", "evl"}
    IN  [m \in keys |->
            IF m = "bit" THEN bit
            ELSE IF m = "evl" THEN Evl(rec.ev)
            ELSE IF m = "bpr"
                 THEN FDiv(bit, Num(IMin(rec.qlen, rec.slen)))
            ELSE FDiv(bit, FMin(nd[rec.q].sbs, nd[rec.s].sbs))]

\* An edge of the undirected graph is keyed by the set of its endpoints.
EdgeKey(q, s) == {q, s}

\* elif metrics['bit'] > met_grf[qry_id][ref_id]['bit']
BetterHit_Mut(bit, stored) == ~FLt(bit, stored)
BetterHit(bit, stored) == FGt(bit, stored)

\* for met in metrics.keys(): met_grf[qry_id][ref_id][met] = metrics[met]
Assign(old, new) ==
    [m \in DOMAIN old \cup DOMAIN new |->
        IF m \in DOMAIN new THEN new[m] ELSE old[m]]

\* met_grf's edges after get_metrics has handled one record.
StoreEdge(ed, nd, rec) ==
    LET k == EdgeKey(rec.q, rec.s)
        m == MetricsOf(nd, rec)
    IN  IF k \notin DOMAIN ed
        THEN [e \in DOMAIN ed \cup {k} |->
                 IF e = k THEN Assign(EmptyDict, m) ELSE ed[e]]
        ELSE IF BetterHit(m["bit"], ed[k]["bit"])
             THEN [ed EXCEPT ![k] = Assign(ed[k], m)]
        ELSE ed

\* add_edge creates the endpoints it does not find, without attributes.
AddNodes(nd, rec) ==
    [i \in DOMAIN nd \cup {rec.q, rec.s} |->
        IF i \in DOMAIN nd THEN nd[i] ELSE EmptyDict]

(***************************************************************************)
(* State                                                                   *)
(***************************************************************************)
NoError == <<"none", "none">>

NoGlobal == [cnt |-> 0, sum |-> EmptyDict, avg |-> EmptyDict]

Start(file) ==
    /\ blast = file
    /\ pos = 1
    /\ pc = "get_self_bit_scores_and_org_ids"
    /\ err = NoError
    /\ node = EmptyDict
    /\ edge = EmptyDict
    /\ org_ids = {}
    /\ org_avgs = EmptyDict
    /\ glb = NoGlobal
    /\ min_scl = None
    /\ max_evl = None
    /\ out = EmptyDict

Init == \E file \in Files : Start(file)

\* The exception `e` leaves function `fn` and ends main.
Fail(e, fn) == pc' = "failed" /\ err' = <<e, fn>>

\* One iteration of the loop of get_self_bit_scores_and_org_ids.
GetSelfBitScoresAndOrgIds ==
    /\ pc = "get_self_bit_scores_and_org_ids"
    /\ pos <= Len(blast)
    /\ LET rec == blast[pos]
       IN  /\ node' = SelfNode(node, rec)
           /\ org_ids' = IF rec.q = rec.s THEN org_ids \cup {OrgOf(rec.q)}
                         ELSE org_ids
    /\ pos' = pos + 1
    /\ UNCHANGED <<blast, pc, err, edge, org_avgs, glb, min_scl, max_evl, out>>

\* args.blast.seek(0)
Rewind ==
    /\ pc = "get_self_bit_scores_and_org_ids"
    /\ pos > Len(blast)
    /\ pos' = 1
    /\ pc' = "get_metrics"
    /\ UNCHANGED <<blast, err, node, edge, org_ids, org_avgs, glb,
                   min_scl, max_evl, out>>

\* One iteration of the loop of get_metrics.
GetMetrics ==
    /\ pc = "get_metrics"
    /\ pos <= Len(blast)
    /\ LET rec == blast[pos]
       IN  IF MetricsErr(node, rec) # "none"
           THEN /\ Fail(MetricsErr(node, rec), "get_metrics")
                /\ UNCHANGED <<pos, node, edge>>
           ELSE /\ edge' = StoreEdge(edge, node, rec)
                /\ node' = AddNodes(node, rec)
                /\ pos' = pos + 1
                /\ UNCHANGED <<pc, err>>
    /\ UNCHANGED <<blast, org_ids, org_avgs, glb, min_scl, max_evl, out>>

\* main: print_abc_files(met_grf, args.out_pref+"_raw") comes next.
AfterGetMetrics_Mut == "compute_organism_averages"
AfterGetMetrics == "print_raw"

EndGetMetrics ==
    /\ pc = "get_metrics"
    /\ pos > Len(blast)
    /\ pc' = AfterGetMetrics
    /\ UNCHANGED <<blast, pos, err, node, edge, org_ids, org_avgs, glb,
                   min_scl, max_evl, out>>

(***************************************************************************)
(* print_abc_files                                                         *)
(***************************************************************************)
\* if qry_id == ref_id: continue
Printed(ed) == {e \in DOMAIN ed : Cardinality(e) = 2}

\* The edges on which edata[met] raises KeyError.
Incomplete(ed, S) == {e \in S : DOMAIN ed[e] # MetricSet}

Line(ed, e, m) == [ids |-> e, val |-> ed[e][m]]

\* The metrics written for an incomplete edge before edata[met] raises.
RECURSIVE WrittenBefore(_, _)
WrittenBefore(d, i) ==
    IF i > Len(Metrics) \/ Metrics[i] \notin DOMAIN d THEN {}
    ELSE {Metrics[i]} \cup WrittenBefore(d, i + 1)

\* The four files of one variant after the edges of `whole` were written
\* in full and, of edge `part`, the metrics in `some`.
Written(files, ed, variant, whole, part, some) ==
    [f \in DOMAIN files \cup {<<variant, m>> : m \in MetricSet} |->
        IF f[1] = variant
        THEN {Line(ed, e, f[2]) : e \in whole}
             \cup {Line(ed, e, f[2]) : e \in {x \in part : f[2] \in some}}
        ELSE files[f]]

PrintAbcFiles(variant, at, after) ==
    /\ pc = at
    /\ LET bad == Incomplete(edge, Printed(edge))
       IN  IF bad = {}
           THEN /\ out' = Written(out, edge, variant, Printed(edge), {}, {})
                /\ pc' = after
                /\ err' = err
           ELSE \* the edges are visited in the graph's dict order
                \E b \in bad : \E done \in SUBSET (Printed(edge) \ bad) :
                   /\ out' = Written(out, edge, variant, done, {b},
                                     WrittenBefore(edge[b], 1))
                   /\ Fail("KeyError", "print_abc_files")
    /\ UNCHANGED <<blast, pos, node, edge, org_ids, org_avgs, glb,
                   min_scl, max_evl>>

PrintRaw == PrintAbcFiles("raw", "print_raw", "compute_organism_averages")

PrintNrm == PrintAbcFiles("nrm", "print_nrm", "done")

(***************************************************************************)
(* compute_organism_averages                                               *)
(***************************************************************************)
RECURSIVE SetToSeq(_)
SetToSeq(S) ==
    IF S = {} THEN <<>>
    ELSE LET x == CHOOSE y \in S : TRUE
         IN  <<x>> \o SetToSeq(S \ {x})

RECURSIVE FSum(_)
FSum(xs) == IF xs = <<>> THEN Num(0) ELSE FAdd(xs[1], FSum(Tail(xs)))

RECURSIVE ISum(_)
ISum(xs) == IF xs = <<>> THEN 0 ELSE xs[1] + ISum(Tail(xs))

\* The organism pair of an edge: org_avgs is undirected too.
OrgPair(e) == {OrgOf(i) : i \in e}

EdgesOf(ed, p) == {e \in DOMAIN ed : OrgPair(e) = p}

\* The sum that `+=` accumulates over the edges of an organism pair.
MetSum(ed, p, m) ==
    LET es == SetToSeq(EdgesOf(ed, p))
    IN  FSum([i \in 1..Len(es) |-> ed[es[i]][m]])

OrgAvgs(ed) ==
    [p \in {OrgPair(e) : e \in DOMAIN ed} |->
        [cnt |-> Cardinality(EdgesOf(ed, p)),
         sum |-> [m \in MetricSet |-> MetSum(ed, p, m)],
         avg |-> [m \in MetricSet |-> None]]]

\* if edata['evl'] == 181.: met_grf[qry_id][ref_id]['evl'] = None
MarkPending(ed) ==
    [e \in DOMAIN ed |->
        IF ed[e]["evl"] = Num(Sentinel)
        THEN [ed[e] EXCEPT !["evl"] = None] ELSE ed[e]]

ComputeOrganismAverages ==
    /\ pc = "compute_organism_averages"
    /\ IF Incomplete(edge, DOMAIN edge) # {}
       THEN /\ Fail("KeyError", "compute_organism_averages")
            /\ UNCHANGED <<edge, org_avgs>>
       ELSE /\ org_avgs' = OrgAvgs(edge)
            /\ edge' = MarkPending(edge)
            /\ pc' = "compute_global_averags"
            /\ err' = err
    /\ UNCHANGED <<blast, pos, node, org_ids, glb, min_scl, max_evl, out>>

(***************************************************************************)
(* compute_global_averags                                                  *)
(***************************************************************************)
GlobalCnt(oa) ==
    LET ps == SetToSeq(DOMAIN oa)
    IN  ISum([i \in 1..Len(ps) |-> oa[ps[i]].cnt])

GlobalSum(oa, m) ==
    LET ps == SetToSeq(DOMAIN oa)
    IN  FSum([i \in 1..Len(ps) |-> oa[ps[i]].sum[m]])

\* temp_avg = edata[met+'_sum']/edata['cnt']
PairAvgs(oa) ==
    [p \in DOMAIN oa |->
        [oa[p] EXCEPT !.avg =
            [m \in MetricSet |-> FDiv(oa[p].sum[m], Num(oa[p].cnt))]]]

ComputeGlobalAverags ==
    /\ pc = "compute_global_averags"
    /\ org_avgs' = PairAvgs(org_avgs)
    /\ IF GlobalCnt(org_avgs) = 0
       THEN /\ glb' = [cnt |-> 0,
                       sum |-> [m \in MetricSet |-> GlobalSum(org_avgs, m)],
                       avg |-> EmptyDict]
            /\ Fail("ZeroDivisionError", "compute_global_averags")
       ELSE /\ glb' = [cnt |-> GlobalCnt(org_avgs),
                       sum |-> [m \in MetricSet |-> GlobalSum(org_avgs, m)],
                       avg |-> [m \in MetricSet |->
                                  FDiv(GlobalSum(org_avgs, m),
                                       Num(GlobalCnt(org_avgs)))]]
            /\ pc' = "normalize_first_pass"
            /\ err' = err
    /\ UNCHANGED <<blast, pos, node, edge, org_ids, min_scl, max_evl, out>>

(***************************************************************************)
(* normalize_bit_score_ratios                                              *)
(***************************************************************************)
\* if met == 'evl' and edata[met] is None: continue
Skipped(d, m) == m = "evl" /\ d["evl"] = None

\* scale = glb_avg[met] / org_avgs[qry_org][ref_org][met+'_avg']
Scale_Mut(oa, g, p, m) == FDiv(oa[p].avg[m], g.avg[m])
Scale(oa, g, p, m) == FDiv(g.avg[m], oa[p].avg[m])

FirstPassDivByZero(ed, oa) ==
    \E e \in DOMAIN ed : \E m \in MetricSet :
        ~Skipped(ed[e], m) /\ DivByZero(oa[OrgPair(e)].avg[m])

\* met_grf[qry_id][ref_id][met] *= scale
Scaled(ed, oa, g) ==
    [e \in DOMAIN ed |->
        [m \in MetricSet |->
            IF Skipped(ed[e], m) THEN None
            ELSE FMul(ed[e][m], Scale(oa, g, OrgPair(e), m))]]

\* edata is the edge's own attribute dict, so the edata['evl'] compared
\* with max_evl is the value the line above has just scaled.
ObservedEvl_Mut(raw, scaled) == raw
ObservedEvl(raw, scaled) == scaled

\* if scale < min_scl: min_scl = scale
RECURSIVE MinScl(_, _, _, _, _)
MinScl(es, ed, oa, g, acc) ==
    IF es = <<>> THEN acc
    ELSE LET e == es[1]
             scale == Scale(oa, g, OrgPair(e), "evl")
         IN  MinScl(Tail(es), ed, oa, g,
                    IF ~Skipped(ed[e], "evl") /\ FLt(scale, acc)
                    THEN scale ELSE acc)

\* if edata['evl'] > max_evl: max_evl = edata['evl']
\* (ed: the edges before the pass, sc: the edges as the pass scales them)
RECURSIVE MaxEvl(_, _, _, _)
MaxEvl(es, ed, sc, acc) ==
    IF es = <<>> THEN acc
    ELSE LET e == es[1]
             seen == ObservedEvl(ed[e]["evl"], sc[e]["evl"])
         IN  MaxEvl(Tail(es), ed, sc,
                    IF ~Skipped(ed[e], "evl") /\ FGt(seen, acc)
                    THEN seen ELSE acc)

NormalizeFirstPass ==
    /\ pc = "normalize_first_pass"
    /\ IF FirstPassDivByZero(edge, org_avgs)
       THEN /\ Fail("ZeroDivisionError", "normalize_bit_score_ratios")
            /\ UNCHANGED <<edge, min_scl, max_evl>>
       ELSE /\ edge' = Scaled(edge, org_avgs, glb)
            /\ min_scl' = MinScl(SetToSeq(DOMAIN edge), edge, org_avgs,
                                 glb, Inf)
            /\ max_evl' = MaxEvl(SetToSeq(DOMAIN edge), edge,
                                 Scaled(edge, org_avgs, glb), NInf)
            /\ pc' = "normalize_second_pass"
            /\ err' = err
    /\ UNCHANGED <<blast, pos, node, org_ids, org_avgs, glb, out>>

gap == 10

\* zro_evl = (max_evl + gap) / min_scl
ZroEvl(mx, mn) == FDiv(FAdd(mx, Num(gap)), mn)

\* The second loop reads `met` as the first loop left it: the last metric.
StaleMet == Metrics[Len(Metrics)]

\* if not met_grf[qry_id][ref_id]['evl']
Unset(d) == ~Truthy(d["evl"])

SecondPassDivByZero(ed, oa, mn) ==
    \/ DivByZero(mn)
    \/ \E e \in DOMAIN ed :
          Unset(ed[e]) /\ DivByZero(oa[OrgPair(e)].avg[StaleMet])

\* met_grf[qry_id][ref_id]['evl'] = zro_evl*scale
Resolved(ed, oa, g, zro) ==
    [e \in DOMAIN ed |->
        IF Unset(ed[e])
        THEN [ed[e] EXCEPT !["evl"] =
                 FMul(zro, Scale(oa, g, OrgPair(e), StaleMet))]
        ELSE ed[e]]

NormalizeSecondPass ==
    /\ pc = "normalize_second_pass"
    /\ IF SecondPassDivByZero(edge, org_avgs, min_scl)
       THEN /\ Fail("ZeroDivisionError", "normalize_bit_score_ratios")
            /\ edge' = edge
       ELSE /\ edge' = Resolved(edge, org_avgs, glb,
                                ZroEvl(max_evl, min_scl))
            /\ pc' = "print_nrm"
            /\ err' = err
    /\ UNCHANGED <<blast, pos, node, org_ids, org_avgs, glb,
                   min_scl, max_evl, out>>

Next ==
    \/ GetSelfBitScoresAndOrgIds
    \/ Rewind
    \/ GetMetrics
    \/ EndGetMetrics
    \/ PrintRaw
    \/ ComputeOrganismAverages
    \/ ComputeGlobalAverags
    \/ NormalizeFirstPass
    \/ NormalizeSecondPass
    \/ PrintNrm

Spec == Init /\ [][Next]_vars

\* The whole pipeline on all-against-all files.
InitNorm == \E file \in AllVsAllFiles : Start(file)

SpecNorm == InitNorm /\ [][Next]_vars

\* The two passes over one-record files.
InitEvl == \E file \in OneRecordFiles : Start(file)

NextEvl ==
    \/ GetSelfBitScoresAndOrgIds
    \/ Rewind
    \/ GetMetrics
    \/ EndGetMetrics

SpecEvl == InitEvl /\ [][NextEvl]_vars

(***************************************************************************)
(* What the file says, for the properties below                            *)
(***************************************************************************)
\* The self-hit records of `id` among the first n records.
SelfHits(id, n) == {i \in 1..n : blast[i].q = id /\ blast[i].s = id}

HasSelfHit(id) == SelfHits(id, Len(blast)) # {}

\* The largest bit score among the records at the positions in S.
TopBit(S) == CHOOSE b \in {blast[i].bit : i \in S} :
                \A i \in S : blast[i].bit <= b

\* The records that mention the pair k, in either orientation.
PairRecs(k) == {i \in 1..Len(blast) : {blast[i].q, blast[i].s} = k}

\* The first record of the pair k that carries the pair's top bit score.
BestRec(k) ==
    blast[CHOOSE i \in PairRecs(k) :
             /\ blast[i].bit = TopBit(PairRecs(k))
             /\ \A j \in PairRecs(k) :
                   blast[j].bit = TopBit(PairRecs(k)) => i <= j]

GetMetricsDone == pc \in {"print_raw", "compute_organism_averages"}

(***************************************************************************)
(* C1: when get_metrics has completed, every pair {q,s}, q # s, that some  *)
(* record mentions in either orientation has an edge, and the edge holds   *)
(* the metrics of the first record with the pair's maximum bit score: its  *)
(* bit and evl, and (when both ends have a self-hit) bpr = bit over the    *)
(* shorter length and bsr = bit over the smaller best self score.          *)
(***************************************************************************)
C1_BestHitKept ==
    GetMetricsDone =>
        \A q \in Ids : \A s \in Ids \ {q} :
            PairRecs({q, s}) # {} =>
                /\ {q, s} \in DOMAIN edge
                /\ LET r == BestRec({q, s})
                       d == edge[{q, s}]
                   IN  /\ d["bit"] = Num(r.bit)
                       /\ d["evl"] = (IF r.ev = EZero THEN Num(181)
                                      ELSE Num(-r.ev[2]))
                       /\ IF HasSelfHit(q) /\ HasSelfHit(s)
                          THEN /\ DOMAIN d = MetricSet
                               /\ d["bpr"] =
                                    Rat(r.bit, IMin(r.qlen, r.slen))
                               /\ d["bsr"] =
                                    Rat(r.bit,
                                        IMin(TopBit(SelfHits(q, Len(blast))),
                                             TopBit(SelfHits(s, Len(blast)))))
                          ELSE DOMAIN d = {"bit", "evl"}

\* get_metrics has completed on a file where a pair has two records in
\* opposite orientations that tie on the top bit score and differ in E-value.
C1_Witness ==
    /\ GetMetricsDone
    /\ \E i \in 1..Len(blast) : \E j \in 1..Len(blast) :
          /\ i < j
          /\ blast[i].q # blast[i].s
          /\ blast[j].q = blast[i].s /\ blast[j].s = blast[i].q
          /\ blast[i].bit = blast[j].bit
          /\ blast[i].bit = TopBit(PairRecs({blast[i].q, blast[i].s}))
          /\ blast[i].ev # blast[j].ev

(***************************************************************************)
(* C2: after get_self_bit_scores_and_org_ids has processed any prefix of   *)
(* the file, every id with a self-hit in the prefix has sbs equal to the   *)
(* maximum bit score of those self-hits, and no step lowers an sbs.        *)
(***************************************************************************)
SelfScoreIsPrefixMax ==
    pc = "get_self_bit_scores_and_org_ids" =>
        \A id \in Ids :
            SelfHits(id, pos - 1) # {} =>
                /\ id \in DOMAIN node
                /\ node[id] = [sbs |-> Num(TopBit(SelfHits(id, pos - 1)))]

SelfScoreNeverDecreases ==
    \A id \in DOMAIN node :
        "sbs" \in DOMAIN node[id] =>
            /\ id \in DOMAIN node'
            /\ "sbs" \in DOMAIN node'[id]
            /\ ~FLt(node'[id].sbs, node[id].sbs)

C2_SelfScoreMax == [](SelfScoreIsPrefixMax) /\ [][SelfScoreNeverDecreases]_vars

\* The first pass has replaced a stored self score by a larger one.
C2_Witness ==
    /\ pc = "get_self_bit_scores_and_org_ids"
    /\ \E i \in 1..(pos - 1) : \E j \in 1..(pos - 1) :
          /\ i < j
          /\ blast[i].q = blast[i].s
          /\ blast[j].q = blast[i].q /\ blast[j].s = blast[i].q
          /\ blast[i].bit < blast[j].bit

(***************************************************************************)
(* C5: a non-self record with an endpoint that has no self-hit record only *)
(* leaves bpr and bsr off its edge; the run does not fail.                 *)
(***************************************************************************)
OrphanRecord(i) ==
    /\ blast[i].q # blast[i].s
    /\ ~HasSelfHit(blast[i].q) \/ ~HasSelfHit(blast[i].s)

C5_OrphanTolerated ==
    \A i \in 1..Len(blast) :
        OrphanRecord(i) =>
            /\ pc # "failed"
            /\ GetMetricsDone =>
                  DOMAIN edge[{blast[i].q, blast[i].s}] = {"bit", "evl"}

(***************************************************************************)
(* C6: the metric graph never holds an edge from a sequence to itself, and *)
(* the per-organism-pair counts count only the pairs of distinct ids that  *)
(* the file mentions.                                                      *)
(***************************************************************************)
MentionedPairs == {k \in {{q, s} : q \in Ids, s \in Ids} :
                      Cardinality(k) = 2 /\ PairRecs(k) # {}}

C6_NoSelfEdges ==
    /\ \A e \in DOMAIN edge : Cardinality(e) = 2
    /\ \A p \in DOMAIN org_avgs :
          org_avgs[p].cnt = Cardinality({k \in MentionedPairs : OrgPair(k) = p})

(***************************************************************************)
(* C7: re-aggregating the lines of the raw files per organism pair gives   *)
(* the edge count and the per-metric sums of compute_organism_averages.    *)
(***************************************************************************)
RawLines(p, m) == {l \in out[<<"raw", m>>] : OrgPair(l.ids) = p}

RawSum(p, m) ==
    LET ls == SetToSeq(RawLines(p, m))
    IN  FSum([i \in 1..Len(ls) |-> ls[i].val])

Aggregated == pc \in {"compute_global_averags", "normalize_first_pass",
                      "normalize_second_pass", "print_nrm", "done"}

C7_RawRoundTrip ==
    Aggregated =>
        /\ \A m \in MetricSet : \A l \in out[<<"raw", m>>] :
              OrgPair(l.ids) \in DOMAIN org_avgs
        /\ \A p \in DOMAIN org_avgs : \A m \in MetricSet :
              /\ Cardinality(RawLines(p, m)) = org_avgs[p].cnt
              /\ RawSum(p, m) = org_avgs[p].sum[m]

(***************************************************************************)
(* C9: when the graph has an edge and every edge is pending (min_scl and   *)
(* max_evl keep their initial inf and -inf), normalize_bit_score_ratios    *)
(* fails and no edge receives a synthetic evl.                             *)
(***************************************************************************)
C9_AllPendingFails ==
    (DOMAIN edge # {} /\ min_scl = Inf /\ max_evl = NInf) =>
        /\ pc \notin {"print_nrm", "done"}
        /\ \A e \in DOMAIN edge : edge[e]["evl"] = None

(***************************************************************************)
(* C10 as claimed: whenever a run has failed, no output file exists.       *)
(***************************************************************************)
C10_NoPartialOutput == pc = "failed" => DOMAIN out = {}

(***************************************************************************)
(* C10 as amended: a failed run has created no normalized file; it has     *)
(* created no file at all exactly when the error left get_metrics (or the  *)
(* first pass), and otherwise it has created the four raw files.           *)
(***************************************************************************)
C10_OnlyRawOutput ==
    pc = "failed" =>
        /\ \A f \in DOMAIN out : f[1] = "raw"
        /\ IF err[2] \in {"get_self_bit_scores_and_org_ids", "get_metrics"}
           THEN DOMAIN out = {}
           ELSE DOMAIN out = {<<"raw", m>> : m \in MetricSet}

\* A run failed after the raw export: the raw files exist.
C10_Witness ==
    /\ pc = "failed"
    /\ err[2] \notin {"get_metrics", "print_abc_files"}
    /\ DOMAIN out # {}

(***************************************************************************)
(* The normalized graph against the file                                   *)
(***************************************************************************)
Normalized == pc \in {"print_nrm", "done"}

\* The raw evl of the record an edge was built from.
RawEvl(e) == IF BestRec(e).ev = EZero THEN 181 ELSE -BestRec(e).ev[2]

\* The average of the scaled values of metric m over the edges of pair p.
ScaledAvg(p, m) == FDiv(MetSum(edge, p, m), Num(Cardinality(EdgesOf(edge, p))))

\* The second pass replaces the evl of an edge that was marked unset (raw
\* evl 181.0) or whose scaled evl is 0.0 (raw evl 0).
Replaced(e) == RawEvl(e) \in {181, 0}

(***************************************************************************)
(* C3 as claimed: after normalization, for every metric and every organism *)
(* pair with an aggregate, the average of the scaled values over the edges *)
(* of the pair is the global average computed before scaling.              *)
(***************************************************************************)
C3_ScaledAvgIsGlobal ==
    Normalized =>
        \A p \in DOMAIN org_avgs : \A m \in MetricSet :
            ScaledAvg(p, m) = glb.avg[m]

(***************************************************************************)
(* C3 as amended: after normalization the average of the scaled values     *)
(* over the edges of an organism pair is the global average for bit, bpr   *)
(* and bsr in every organism pair, and for evl in the organism pairs none  *)
(* of whose edges had its evl replaced by the second pass.                 *)
(***************************************************************************)
C3_ScaledAvgIsGlobalUnlessReplaced ==
    Normalized =>
        \A p \in DOMAIN org_avgs : \A m \in MetricSet :
            (m = "evl" => \A e \in EdgesOf(edge, p) : ~Replaced(e)) =>
                ScaledAvg(p, m) = glb.avg[m]

\* A normalized graph with an organism pair of several edges whose raw evl
\* average differs from the global one and none of which was replaced,
\* beside an organism pair that holds a saturated edge.
C3_Witness ==
    /\ Normalized
    /\ \E p \in DOMAIN org_avgs :
          /\ org_avgs[p].cnt >= 2
          /\ \A e \in EdgesOf(edge, p) : ~Replaced(e)
          /\ org_avgs[p].avg["evl"] # glb.avg["evl"]
          /\ org_avgs[p].avg["bsr"] # glb.avg["bsr"]
    /\ \E p \in DOMAIN org_avgs : \E e \in EdgesOf(edge, p) : RawEvl(e) = 181

(***************************************************************************)
(* C4: a record with E-value 0 is stored with raw evl 181.0, and after     *)
(* normalization every edge between two sequences whose E-value was 0 has  *)
(* a normalized evl strictly greater than that of every such edge whose    *)
(* E-value was not 0.                                                      *)
(***************************************************************************)
C4_ZeroAboveFinite ==
    /\ GetMetricsDone =>
          \A e \in DOMAIN edge :
              BestRec(e).ev = EZero => edge[e]["evl"] = Num(181)
    /\ Normalized =>
          \A z \in Printed(edge) : \A f \in Printed(edge) :
              (BestRec(z).ev = EZero /\ BestRec(f).ev # EZero) =>
                  FGt(edge[z]["evl"], edge[f]["evl"])

(***************************************************************************)
(* C8 as claimed: the raw evl stored for a record is never negative, and   *)
(* it is 181.0 exactly when the record's E-value is zero.                  *)
(***************************************************************************)
RecordStored == pc = "get_metrics" /\ pos = 2

StoredEvl == edge[{blast[1].q, blast[1].s}]["evl"]

C8_EvlNonNegative ==
    RecordStored =>
        /\ ~FLt(StoredEvl, Num(0))
        /\ StoredEvl = Num(181) <=> blast[1].ev = EZero

(***************************************************************************)
(* C8 as amended: the raw evl stored for a record is 181.0 when the        *)
(* E-value is zero, and otherwise only when the E-value is 1e-181; it is   *)
(* negative exactly when the E-value is greater than 1, and 0 exactly when *)
(* the E-value is 1.                                                       *)
(***************************************************************************)
C8_EvlSign ==
    RecordStored =>
        LET ev == blast[1].ev
        IN  /\ ev = EZero => StoredEvl = Num(181)
            /\ StoredEvl = Num(181) <=> (ev = EZero \/ ev = Pow10(-181))
            /\ FLt(StoredEvl, Num(0)) <=> (ev # EZero /\ ev[2] > 0)
            /\ StoredEvl = Num(0) <=> (ev # EZero /\ ev[2] = 0)

\* get_metrics has stored a record whose E-value is greater than 1.
C8_Witness ==
    /\ RecordStored
    /\ blast[1].ev # EZero
    /\ blast[1].ev[2] > 0
    /\ blast[1].q # blast[1].s

(***************************************************************************)
(* The second pass against the file                                        *)
(***************************************************************************)
\* raw evl x (global evl average / evl average of the edge's organism pair)
ScaledRawEvl(e) ==
    FMul(Num(RawEvl(e)), Scale(org_avgs, glb, OrgPair(e), "evl"))

(***************************************************************************)
(* C11: after normalization, the edges whose raw evl is the sentinel 181.0 *)
(* have had their evl overwritten by the second pass, and every other      *)
(* edge, an edge of raw evl 0 included, has evl = raw evl x (global evl    *)
(* average / evl average of its organism pair).                            *)
(***************************************************************************)
C11_OnlyUnsetOverwritten ==
    Normalized =>
        \A e \in DOMAIN edge :
            IF RawEvl(e) = Sentinel
            THEN edge[e]["evl"] # None
            ELSE edge[e]["evl"] = ScaledRawEvl(e)

(***************************************************************************)
(* The first pass against the file                                         *)
(***************************************************************************)
FirstPassEnded == pc = "normalize_second_pass"

\* The edges the first pass scales: those whose raw evl is not the sentinel.
NonPending == {e \in DOMAIN edge : RawEvl(e) # Sentinel}

MaxOf(S) == CHOOSE x \in S : \A y \in S : ~FGt(y, x)
MinOf(S) == CHOOSE x \in S : \A y \in S : ~FLt(y, x)

EvlScales == {Scale(org_avgs, glb, OrgPair(e), "evl") : e \in NonPending}

(***************************************************************************)
(* C12 as claimed: when the first pass ends, max_evl is the maximum raw    *)
(* evl over the non-pending edges and min_scl the minimum evl scale factor *)
(* applied to them, so that zro_evl = (maximum raw evl + 10) / min_scl.    *)
(***************************************************************************)
C12_MaxEvlIsRaw ==
    (FirstPassEnded /\ NonPending # {}) =>
        LET maxraw == MaxOf({Num(RawEvl(e)) : e \in NonPending})
        IN  /\ max_evl = maxraw
            /\ min_scl = MinOf(EvlScales)
            /\ ZroEvl(max_evl, min_scl) =
                   FDiv(FAdd(maxraw, Num(10)), MinOf(EvlScales))

(***************************************************************************)
(* C12 as amended: when the first pass ends, max_evl is the maximum over   *)
(* the non-pending edges of the scaled evl (raw evl x the evl scale factor *)
(* of the edge's organism pair) and min_scl the minimum evl scale factor   *)
(* applied to them, so that zro_evl = (maximum scaled evl + 10) / min_scl; *)
(* with no non-pending edge they keep -inf and inf.                        *)
(***************************************************************************)
C12_MaxEvlIsScaled ==
    FirstPassEnded =>
        IF NonPending = {}
        THEN max_evl = NInf /\ min_scl = Inf
        ELSE LET maxscl == MaxOf({ScaledRawEvl(e) : e \in NonPending})
             IN  /\ max_evl = maxscl
                 /\ min_scl = MinOf(EvlScales)
                 /\ ZroEvl(max_evl, min_scl) =
                        FDiv(FAdd(maxscl, Num(10)), MinOf(EvlScales))

\* The first pass has ended on a graph with a pending edge and non-pending
\* edges in organism pairs of different evl scale factors, where the
\* greatest scaled evl differs from the greatest raw evl.
C12_Witness ==
    /\ FirstPassEnded
    /\ \E e \in DOMAIN edge : RawEvl(e) = Sentinel
    /\ Cardinality(EvlScales) >= 2
    /\ MaxOf({ScaledRawEvl(e) : e \in NonPending})
           # MaxOf({Num(RawEvl(e)) : e \in NonPending})

====
